---- MODULE Spec2Model ----
(***************************************************************************)
(* The descriptor-readiness pollers of assay/unix.py: EPoll (list-based,   *)
(* select.epoll) and KQueue (queue-based, select.kqueue).  One poller      *)
(* instance of either backend, its registration map, the kernel interest   *)
(* set behind it, one events() generator and the single-threaded consumer  *)
(* that drives register / unregister / events() / next().                  *)
(***************************************************************************)
EXTENDS Integers, Sequences, FiniteSets, TLC

VARIABLES
    backend,    \* "epoll" | "kqueue": which class was instantiated
    fdmap,      \* self.fdmap: descriptor -> registered object (None = no key)
    interest,   \* kernel side of self.poller: descriptor -> watched mask (None = not watched)
    readable,   \* environment: descriptors that currently have input pending
    pc,         \* position of the events() generator
    reported,   \* the list the current poll call returned (the for loop's iterable)
    pos,        \* how many items of `reported` the for loop has consumed
    intr,       \* EINTR failures of the poll call since it last returned events
    perr,       \* errno of the latest failure of the stream's poll call ("OK" = none)
    touched,    \* register/unregister was called since the current list was fetched
    lastReg,    \* history: descriptor -> object of the latest register call for it
    status,     \* history: object -> "never" | "registered" (register was called) |
                \*          "unregistered" (unregister returned, no register since)
    last,       \* the latest call of the consumer and what it returned or raised
    kcall,      \* the kernel change call that latest call issued: "add" | "delete" | "none"
    closed      \* self.poller.close() was called

vars == <<backend, fdmap, interest, readable, pc, reported, pos, intr, perr,
          touched, lastReg, status, last, kcall, closed>>

None == "None"

\* Bound: how many times the poll call is interrupted before it returns events.
MaxIntr == 2

Backends == {"epoll", "kqueue"}

\* Registrable objects and the descriptor each one reports: A and B report the
\* same descriptor number (B is what reuses A's descriptor), C another one.
Objs == {"A", "B", "C"}
Fds == {1, 2}

fileno(obj) == IF obj = "C" THEN 2 ELSE 1

EPOLLIN == "EPOLLIN"
EPOLLOUT == "EPOLLOUT"
EpollFlags == {EPOLLIN, EPOLLOUT}
KQ_FILTER_READ == "KQ_FILTER_READ"
KQ_EV_ADD_ENABLE == "KQ_EV_ADD|KQ_EV_ENABLE"

\* The flags a register call may be given: EPoll.register(obj, flags=EPOLLIN);
\* KQueue.register(obj) takes none and always watches for reading.
RegFlags(b) == IF b = "epoll" THEN EpollFlags ELSE {KQ_FILTER_READ}

EmptyMap == [fd \in Fds |-> None]

Keys(m) == {fd \in Fds : m[fd] # None}

----------------------------------------------------------------------------
(* The kernel multiplexers, as the calls of the source use them.           *)

\* self.poller.register(fd, flags): epoll_ctl(EPOLL_CTL_ADD).  A descriptor
\* already in the interest set is rejected (EEXIST); nospc is the kernel
\* refusing a new watch (ENOSPC, the per-user watch limit).
EpollCtlAdd(ks, fd, flags, nospc) ==
    IF ks[fd] # None THEN [ks |-> ks, errno |-> "EEXIST"]
    ELSE IF nospc THEN [ks |-> ks, errno |-> "ENOSPC"]
    ELSE [ks |-> [ks EXCEPT ![fd] = flags], errno |-> "OK"]

\* self.poller.unregister(fd): epoll_ctl(EPOLL_CTL_DEL).
EpollCtlDel(ks, fd) ==
    IF ks[fd] = None THEN [ks |-> ks, errno |-> "ENOENT"]
    ELSE [ks |-> [ks EXCEPT ![fd] = None], errno |-> "OK"]

\* self.poller.control([kevent(fd, KQ_FILTER_READ, KQ_EV_ADD | KQ_EV_ENABLE)], 0):
\* EV_ADD of a filter that is already there modifies it and reports no error;
\* nomem is the kernel failing to allocate the new filter (ENOMEM).
KqueueAdd(ks, fd, nomem) ==
    IF ks[fd] # None THEN [ks |-> ks, errno |-> "OK"]
    ELSE IF nomem THEN [ks |-> ks, errno |-> "ENOMEM"]
    ELSE [ks |-> [ks EXCEPT ![fd] = KQ_FILTER_READ], errno |-> "OK"]

\* self.poller.control([kevent(fd, KQ_FILTER_READ, KQ_EV_DELETE)], 0).
KqueueDelete(ks, fd) ==
    IF ks[fd] = None THEN [ks |-> ks, errno |-> "ENOENT"]
    ELSE [ks |-> [ks EXCEPT ![fd] = None], errno |-> "OK"]

\* A watched descriptor has an event to report: input pending when watched
\* for reading; a descriptor watched for writing is taken to be writable.
Fired(ks, rd) ==
    {fd \in Fds : ks[fd] # None /\ (ks[fd] = EPOLLOUT \/ fd \in rd)}

RECURSIVE Orderings(_)
Orderings(S) ==
    IF S = {} THEN {<<>>}
    ELSE UNION {{<<x>> \o t : t \in Orderings(S \ {x})} : x \in S}

Min(a, b) == IF a < b THEN a ELSE b

\* The max_events argument of the poll call in KQueue.events.
KQ_MAX_EVENTS == 0

\* self.poller.poll(): every fired descriptor with its mask, in an order the
\* kernel chooses.  With no timeout the call returns only once there is at
\* least one event, so the empty list is never a result.
EpollPoll(ks, rd) ==
    {[i \in 1..Len(o) |-> [fd |-> o[i], flags |-> ks[o[i]]]] :
        o \in Orderings(Fired(ks, rd))} \ {<<>>}

\* self.poller.control(None, max_events=0): kevent() with an event list of
\* max_events slots and no timeout.  It returns at most max_events fired
\* events (ident, flags) in an order the kernel chooses, once there is at
\* least one; with no slot at all it returns at once, with the empty list,
\* whatever has fired.
KqueueControl(ks, rd, max_events) ==
    IF max_events = 0 THEN {<<>>}
    ELSE {[i \in 1..Min(Len(o), max_events) |->
              [fd |-> o[i], flags |-> KQ_EV_ADD_ENABLE]] :
              o \in Orderings(Fired(ks, rd))} \ {<<>>}

\* The lists the poll call of events() can return now.  The empty set means
\* the call stays blocked.
PollResults(b, ks, rd) ==
    IF b = "epoll" THEN EpollPoll(ks, rd)
    ELSE KqueueControl(ks, rd, KQ_MAX_EVENTS)

----------------------------------------------------------------------------
(* register and unregister, as functions of the poller's state.            *)

Raised(errno) == IF errno = "OK" THEN "ok" ELSE "IOError"

\* Variants of EPoll.register with a plausible slip each, used to show that
\* the properties below depend on the code: the map entry is written only
\* when the descriptor has none (first write wins) ...
EPoll_register_keepfirst(fm, ks, obj, flags, kfail) ==
    LET fd == fileno(obj)
        k  == EpollCtlAdd(ks, fd, flags, kfail)
    IN  [fdmap |-> IF fm[fd] = None THEN [fm EXCEPT ![fd] = obj] ELSE fm,
         interest |-> k.ks, res |-> Raised(k.errno), errno |-> k.errno, kcall |-> "add"]

\* ... the kernel's error is caught and dropped ...
EPoll_register_swallow(fm, ks, obj, flags, kfail) ==
    LET fd == fileno(obj)
        k  == EpollCtlAdd(ks, fd, flags, kfail)
    IN  [fdmap |-> [fm EXCEPT ![fd] = obj], interest |-> k.ks,
         res |-> "ok", errno |-> "OK", kcall |-> "add"]

\* ... the flags argument is not passed on (the kernel gets the default).
EPoll_register_defaultflags(fm, ks, obj, flags, kfail) ==
    LET fd == fileno(obj)
        k  == EpollCtlAdd(ks, fd, EPOLLIN, kfail)
    IN  [fdmap |-> [fm EXCEPT ![fd] = obj], interest |-> k.ks,
         res |-> Raised(k.errno), errno |-> k.errno, kcall |-> "add"]

\* EPoll.register: fd = obj.fileno(); self.fdmap[fd] = obj;
\* self.poller.register(fd, flags).  The map is written before the kernel
\* call, so it is written also when that call raises.
EPoll_register(fm, ks, obj, flags, kfail) ==
    LET fd == fileno(obj)
        k  == EpollCtlAdd(ks, fd, flags, kfail)
    IN  [fdmap |-> [fm EXCEPT ![fd] = obj], interest |-> k.ks,
         res |-> Raised(k.errno), errno |-> k.errno, kcall |-> "add"]

\* Variants of EPoll.unregister with a slip: the map entry is not deleted ...
EPoll_unregister_keepmap(fm, ks, obj) ==
    LET fd == fileno(obj)
        k  == EpollCtlDel(ks, fd)
    IN  IF fm[fd] = None
        THEN [fdmap |-> fm, interest |-> ks, res |-> "KeyError", errno |-> "OK",
              kcall |-> "none"]
        ELSE [fdmap |-> fm, interest |-> k.ks,
              res |-> Raised(k.errno), errno |-> k.errno, kcall |-> "delete"]

\* ... the entry is removed with self.fdmap.pop(fd, None), which never raises.
EPoll_unregister_pop(fm, ks, obj) ==
    LET fd == fileno(obj)
        k  == EpollCtlDel(ks, fd)
    IN  [fdmap |-> [fm EXCEPT ![fd] = None], interest |-> k.ks,
         res |-> Raised(k.errno), errno |-> k.errno, kcall |-> "delete"]

\* ... the kernel is not told (self.poller.unregister(fd) is left out).
EPoll_unregister_nokernel(fm, ks, obj) ==
    LET fd == fileno(obj)
    IN  IF fm[fd] = None
        THEN [fdmap |-> fm, interest |-> ks, res |-> "KeyError", errno |-> "OK",
              kcall |-> "none"]
        ELSE [fdmap |-> [fm EXCEPT ![fd] = None], interest |-> ks,
              res |-> "ok", errno |-> "OK", kcall |-> "none"]

\* ... the kernel is called first and the map entry deleted afterwards.
EPoll_unregister_kernelfirst(fm, ks, obj) ==
    LET fd == fileno(obj)
        k  == EpollCtlDel(ks, fd)
    IN  IF k.errno # "OK"
        THEN [fdmap |-> fm, interest |-> k.ks, res |-> "IOError",
              errno |-> k.errno, kcall |-> "delete"]
        ELSE IF fm[fd] = None
        THEN [fdmap |-> fm, interest |-> k.ks, res |-> "KeyError",
              errno |-> "OK", kcall |-> "delete"]
        ELSE [fdmap |-> [fm EXCEPT ![fd] = None], interest |-> k.ks,
              res |-> "ok", errno |-> "OK", kcall |-> "delete"]

\* EPoll.unregister: fd = obj.fileno(); del self.fdmap[fd] (KeyError when
\* the descriptor is no key, before the kernel is called);
\* self.poller.unregister(fd).
EPoll_unregister(fm, ks, obj) ==
    LET fd == fileno(obj)
        k  == EpollCtlDel(ks, fd)
    IN  IF fm[fd] = None
        THEN [fdmap |-> fm, interest |-> ks, res |-> "KeyError", errno |-> "OK",
              kcall |-> "none"]
        ELSE [fdmap |-> [fm EXCEPT ![fd] = None], interest |-> k.ks,
              res |-> Raised(k.errno), errno |-> k.errno, kcall |-> "delete"]

\* KQueue.register: as EPoll.register, with an add-and-enable change event
\* for the read filter.
KQueue_register(fm, ks, obj, kfail) ==
    LET fd == fileno(obj)
        k  == KqueueAdd(ks, fd, kfail)
    IN  [fdmap |-> [fm EXCEPT ![fd] = obj], interest |-> k.ks,
         res |-> Raised(k.errno), errno |-> k.errno, kcall |-> "add"]

\* A variant of KQueue.unregister with a slip: the delete change event is
\* built but never submitted.
KQueue_unregister_nokernel(fm, ks, obj) ==
    LET fd == fileno(obj)
    IN  IF fm[fd] = None
        THEN [fdmap |-> fm, interest |-> ks, res |-> "KeyError", errno |-> "OK",
              kcall |-> "none"]
        ELSE [fdmap |-> [fm EXCEPT ![fd] = None], interest |-> ks,
              res |-> "ok", errno |-> "OK", kcall |-> "none"]

\* KQueue.unregister: as EPoll.unregister, with a delete change event.
KQueue_unregister(fm, ks, obj) ==
    LET fd == fileno(obj)
        k  == KqueueDelete(ks, fd)
    IN  IF fm[fd] = None
        THEN [fdmap |-> fm, interest |-> ks, res |-> "KeyError", errno |-> "OK",
              kcall |-> "none"]
        ELSE [fdmap |-> [fm EXCEPT ![fd] = None], interest |-> k.ks,
              res |-> Raised(k.errno), errno |-> k.errno, kcall |-> "delete"]

DoRegister(b, fm, ks, obj, flags, kfail) ==
    IF b = "epoll" THEN EPoll_register(fm, ks, obj, flags, kfail)
    ELSE KQueue_register(fm, ks, obj, kfail)

DoUnregister(b, fm, ks, obj) ==
    IF b = "epoll" THEN EPoll_unregister(fm, ks, obj)
    ELSE KQueue_unregister(fm, ks, obj)

----------------------------------------------------------------------------
(* The events() generator.                                                 *)

Call(op, obj, flags, res) == [op |-> op, obj |-> obj, flags |-> flags, res |-> res]

\* Variants of the except clause with a slip: no retry at all ...
Handler_noRetry(exc, errno) == "raise"

\* ... every IOError is retried ...
Handler_retryAll(exc, errno) == IF exc = "IOError" THEN "retry" ELSE "raise"

\* ... the clause also catches the lookup error (except (IOError, KeyError)).
Handler_catchLookup(exc, errno) ==
    IF exc = "KeyError" \/ errno = "EINTR" THEN "retry" ELSE "raise"

\* except IOError as e: if e.errno != errno.EINTR: raise
\* What the handler does with an exception raised inside the try block.
Handler(exc, errno) ==
    IF exc = "IOError" /\ errno = "EINTR" THEN "retry" ELSE "raise"

\* Variants of the loop condition with a slip: the loop runs only while
\* something is registered (while self.fdmap) ...
WhileCond_registered(fm) == Keys(fm) # {}

\* ... or not at all, so that the statement after the loop is reached.
WhileCond_never(fm) == FALSE

\* The loop condition of events(): `while True`.
WhileCond(fm) == TRUE

\* The top of the while loop: the generator enters the poll call, or, were
\* the condition false, leaves the loop and returns (KQueue.events calls
\* self.poller.close() first), which the consumer sees as StopIteration.
LoopTop(b, fm) ==
    IF WhileCond(fm)
    THEN [pc |-> "poll", out |-> Call("next", None, None, "blocked"),
          closes |-> FALSE]
    ELSE [pc |-> "returned", out |-> Call("next", None, None, "StopIteration"),
          closes |-> (b = "kqueue")]

\* A variant of the yield with a slip: the yielded entry is taken out of
\* the map (yield self.fdmap.pop(fd), flags).
ResolveItem_pop(fm, item) ==
        IF fm[item.fd] = None
        THEN [pc |-> "raised", out |-> Call("next", None, None, "KeyError"),
              fdmap |-> fm]
        ELSE [pc |-> "yielded",
              out |-> Call("next", fm[item.fd], item.flags, "yield"),
              fdmap |-> [fm EXCEPT ![item.fd] = None]]

\* yield self.fdmap[fd], flags   for one item of the fetched list: the
\* generator's next position, what the consumer's next() call gets, and the
\* registration map afterwards (the lookup only reads it).
ResolveItem(fm, item) ==
        IF fm[item.fd] = None
        THEN IF Handler("KeyError", "OK") = "retry"
             THEN [pc |-> "poll", out |-> Call("next", None, None, "blocked"),
                   fdmap |-> fm]
             ELSE [pc |-> "raised", out |-> Call("next", None, None, "KeyError"),
                   fdmap |-> fm]
        ELSE [pc |-> "yielded",
              out |-> Call("next", fm[item.fd], item.flags, "yield"),
              fdmap |-> fm]

\* A for loop that does not advance: it takes the first item every time.
Resolve_first(fm, list, n) == ResolveItem(fm, list[1])

\* One iteration of `for fd, flags in <list>` on item number n of the list.
Resolve(fm, list, n) == ResolveItem(fm, list[n])

Init ==
    /\ backend \in Backends
    /\ fdmap = EmptyMap
    /\ interest = EmptyMap
    /\ readable = {}
    /\ pc = "none"
    /\ reported = <<>>
    /\ pos = 0
    /\ intr = 0
    /\ perr = "OK"
    /\ touched = FALSE
    /\ lastReg = EmptyMap
    /\ status = [o \in Objs |-> "never"]
    /\ last = Call("init", None, None, "ok")
    /\ kcall = "none"
    /\ closed = FALSE

\* The consumer runs only while the generator is not inside the poll call.
ConsumerRuns == pc # "poll"

\* poller.register(obj[, flags])
Register(obj, flags, kfail) ==
    /\ ConsumerRuns
    /\ LET r == DoRegister(backend, fdmap, interest, obj, flags, kfail)
       IN  /\ fdmap' = r.fdmap
           /\ interest' = r.interest
           /\ last' = Call("register", obj, flags, r.res)
           /\ kcall' = r.kcall
    /\ lastReg' = [lastReg EXCEPT ![fileno(obj)] = obj]
    /\ status' = [status EXCEPT ![obj] = "registered"]
    /\ touched' = (touched \/ pc = "yielded")
    /\ UNCHANGED <<backend, readable, pc, reported, pos, intr, perr, closed>>

\* poller.unregister(obj)
Unregister(obj) ==
    /\ ConsumerRuns
    /\ LET r == DoUnregister(backend, fdmap, interest, obj)
       IN  /\ fdmap' = r.fdmap
           /\ interest' = r.interest
           /\ last' = Call("unregister", obj, None, r.res)
           /\ kcall' = r.kcall
           /\ status' = IF r.res = "ok"
                        THEN [status EXCEPT ![obj] = "unregistered"]
                        ELSE status
    /\ touched' = (touched \/ pc = "yielded")
    /\ UNCHANGED <<backend, readable, pc, reported, pos, intr, perr, lastReg,
                   closed>>

\* poller.events(): a new generator, not started; the previous one is dropped.
Events ==
    /\ ConsumerRuns
    /\ pc' = "fresh"
    /\ reported' = <<>>
    /\ pos' = 0
    /\ touched' = FALSE
    /\ last' = Call("events", None, None, "ok")
    /\ intr' = 0
    /\ perr' = "OK"
    /\ kcall' = "none"
    /\ UNCHANGED <<backend, fdmap, interest, readable, lastReg, status, closed>>

\* next(stream), up to the point where the generator yields, raises or
\* enters the poll call.
Next_ ==
    /\ pc \in {"fresh", "yielded", "raised", "returned"}
    /\ IF pc \in {"raised", "returned"}
       THEN /\ last' = Call("next", None, None, "StopIteration")
            /\ UNCHANGED <<pc, reported, pos, touched, fdmap, closed>>
       ELSE IF pc = "yielded" /\ pos < Len(reported)
       THEN LET r == Resolve(fdmap, reported, pos + 1)
            IN  /\ pc' = r.pc
                /\ last' = r.out
                /\ fdmap' = r.fdmap
                /\ reported' = IF r.pc = "yielded" THEN reported ELSE <<>>
                /\ pos' = IF r.pc = "yielded" THEN pos + 1 ELSE 0
                /\ touched' = (touched /\ r.pc = "yielded")
                /\ UNCHANGED closed
       ELSE LET t == LoopTop(backend, fdmap)
            IN  /\ pc' = t.pc
                /\ last' = t.out
                /\ closed' = (closed \/ t.closes)
                /\ reported' = <<>>
                /\ pos' = 0
                /\ touched' = FALSE
                /\ UNCHANGED fdmap
    /\ kcall' = "none"
    /\ UNCHANGED <<backend, interest, readable, intr, perr, lastReg, status>>

\* The poll call returns a list; the for loop starts on it.
PollReturns ==
    /\ pc = "poll"
    /\ \E list \in PollResults(backend, interest, readable) :
          IF list = <<>>
          THEN LET t == LoopTop(backend, fdmap)
               IN  /\ pc' = t.pc
                   /\ last' = t.out
                   /\ closed' = (closed \/ t.closes)
                   /\ UNCHANGED <<reported, pos, intr, fdmap>>
          ELSE LET r == Resolve(fdmap, list, 1)
               IN  /\ pc' = r.pc
                   /\ last' = r.out
                   /\ fdmap' = r.fdmap
                   /\ reported' = IF r.pc = "yielded" THEN list ELSE <<>>
                   /\ pos' = IF r.pc = "yielded" THEN 1 ELSE 0
                   /\ intr' = 0
                   /\ UNCHANGED closed
    /\ perr' = "OK"
    /\ touched' = FALSE
    /\ UNCHANGED <<backend, interest, readable, lastReg, status, kcall>>

\* The poll call raises IOError(errno).
PollFails(errno) ==
    /\ pc = "poll"
    /\ errno = "EINTR" => intr < MaxIntr
    /\ intr' = IF errno = "EINTR" THEN intr + 1 ELSE intr
    /\ perr' = errno
    /\ IF Handler("IOError", errno) = "retry"
       THEN LET t == LoopTop(backend, fdmap)
            IN  /\ pc' = t.pc
                /\ last' = t.out
                /\ closed' = (closed \/ t.closes)
       ELSE /\ pc' = "raised"
            /\ last' = Call("next", None, None, "IOError")
            /\ UNCHANGED closed
    /\ UNCHANGED <<backend, fdmap, interest, readable, reported, pos, touched,
                   lastReg, status, kcall>>

\* Environment: input arrives on, or is drained from, a descriptor.
SetReadable(fd) ==
    /\ readable' = IF fd \in readable THEN readable \ {fd} ELSE readable \cup {fd}
    /\ UNCHANGED <<backend, fdmap, interest, pc, reported, pos, intr, perr,
                   touched, lastReg, status, last, kcall, closed>>

Next ==
    \/ \E obj \in Objs, kfail \in BOOLEAN :
          \E flags \in RegFlags(backend) : Register(obj, flags, kfail)
    \/ \E obj \in Objs : Unregister(obj)
    \/ Events
    \/ Next_
    \/ PollReturns
    \/ \E errno \in {"EINTR", "EBADF"} : PollFails(errno)
    \/ \E fd \in Fds : SetReadable(fd)

Spec == Init /\ [][Next]_vars

\* The consumer keeps pulling from its stream, and a poll call that has
\* events to return does return.
FairSpec == Spec /\ WF_vars(Next_) /\ WF_vars(PollReturns)

----------------------------------------------------------------------------
(* Steps, as seen in the state.                                            *)

\* The step is a call register(obj, ...) / unregister(obj).
IsRegisterStep(obj) ==
    last'.op = "register" /\ last'.obj = obj /\ last' # last

IsUnregisterStep(obj) ==
    last'.op = "unregister" /\ last'.obj = obj /\ last' # last

\* The step resumes the generator that was suspended at a yield.
IsResumeStep ==
    pc = "yielded" /\ pc' # "fresh" /\ (pos' # pos \/ pc' \in {"poll", "raised"})

Yielded == last.op = "next" /\ last.res = "yield"

\* A consumer call that changes the poller always shows in `last`.
CallsAreVisible ==
    [][last' = last => UNCHANGED <<fdmap, interest, lastReg, status, touched>>]_vars

\* The kernel never watches a descriptor the map has no entry for.
InterestWithinMap == Keys(interest) \subseteq Keys(fdmap)

----------------------------------------------------------------------------
(* The claims.                                                             *)

\* C1: when the poll call fails with EINTR, in either backend, nothing is
\* delivered to the consumer and the stream does not end: the generator is
\* in the poll call again (the consumer's next() is still blocked), however
\* many interruptions came before.
C1_InterruptRetried ==
    perr = "EINTR" =>
        /\ intr \in 1..MaxIntr
        /\ pc = "poll"
        /\ last = Call("next", None, None, "blocked")

C1_Witness ==
    perr = "EINTR" /\ intr = MaxIntr /\ pc = "poll" /\ fdmap[1] # None

\* C2: a poll error other than EINTR reaches the consumer as the IOError
\* raised by next() and ends the stream: from then on that stream makes no
\* poll call and yields nothing (only a new events() call leaves the state).
C2_FatalPropagates ==
    /\ [](perr = "EBADF" =>
            /\ pc = "raised"
            /\ last.op = "next" => last.res \in {"IOError", "StopIteration"})
    /\ [][pc = "raised" =>
            /\ pc' \in {"raised", "fresh"}
            /\ pc' = "raised" => (perr' = perr /\ intr' = intr)
            /\ last'.op = "next" /\ last' # last => last'.res = "StopIteration"]_vars

C2_Witness ==
    perr = "EBADF" /\ pc = "raised" /\ last = Call("next", None, None, "IOError")

\* C3: every yielded pair carries the object of the latest register call
\* for the fired descriptor, as of the moment of the yield, however
\* register/unregister calls are interleaved with the consumption.
C3_MapCorrectness ==
    Yielded =>
        /\ pc = "yielded"
        /\ pos \in 1..Len(reported)
        /\ last.obj = lastReg[reported[pos].fd]

\* B was registered for descriptor 1 between two yields of one cycle and is
\* what the second yield resolves to.
C3_Witness ==
    Yielded /\ touched /\ pos = 2 /\ last.obj = "B" /\ reported[2].fd = 1

\* C4: once unregister(obj) has returned, no stream yields obj unless
\* register(obj) is called again.
C4_NoYieldAfterUnregister ==
    Yielded => status[last.obj] # "unregistered"

\* A was unregistered and its descriptor, reused by B, fires: B is yielded.
C4_Witness ==
    Yielded /\ last.obj = "B" /\ status["A"] = "unregistered"

C7_Pre ==
    /\ fdmap[1] = "A"
    /\ interest[1] \in {EPOLLIN, KQ_FILTER_READ}
    /\ 1 \in readable
    /\ pc \in {"poll", "yielded"}

C7_GotA == Yielded /\ last.obj = "A"

\* C7 (as stated, for either backend): if from some point on A is registered
\* for reading, its descriptor stays readable and the consumer keeps pulling
\* from one stream that no error ends, A is yielded again and again; the
\* poll call is interrupted at most MaxIntr times before it returns events.
C7_ReadableIsDelivered == <>[]C7_Pre => []<>C7_GotA

\* The same for the list-based backend alone.
C7_EPollDelivers == <>[](C7_Pre /\ backend = "epoll") => []<>C7_GotA

\* The queue-based stream never yields: its poll call asks for no event.
KQueueNeverYields == backend = "kqueue" => pc # "yielded" /\ ~Yielded

\* C8: a fired descriptor that is no key of the map when the generator
\* resolves it makes next() raise KeyError and ends the stream; no event is
\* yielded for it and the poll is not retried.
C8_LookupFailureFatal ==
    /\ [](last.op = "next" /\ last.res = "KeyError" => pc = "raised")
    /\ [][IsResumeStep /\ pos < Len(reported)
             /\ fdmap[reported[pos + 1].fd] = None =>
                /\ pc' = "raised"
                /\ last' = Call("next", None, None, "KeyError")]_vars

C8_Witness ==
    /\ pc = "raised"
    /\ last = Call("next", None, None, "KeyError")
    /\ \E o \in Objs : status[o] = "unregistered"

\* C9 (as stated): registering a descriptor that is already registered and
\* watched raises at the register call, in both backends.
C9_DoubleRegisterRaises ==
    [][\A obj \in Objs :
        /\ IsRegisterStep(obj)
        /\ fdmap[fileno(obj)] # None
        /\ interest[fileno(obj)] # None
        => last'.res # "ok"]_vars

\* C9 (amended): registering a descriptor the kernel already watches raises
\* at the register call in the list-based backend (the kernel's EEXIST, not
\* caught); the queue-based backend accepts the call silently, and the map
\* then holds the object of this call.
C9_DoubleRegisterByBackend ==
    [][\A obj \in Objs :
        IsRegisterStep(obj) /\ interest[fileno(obj)] # None =>
            /\ interest' = interest
            /\ fdmap'[fileno(obj)] = obj
            /\ backend = "epoll" => last'.res = "IOError"
            /\ backend = "kqueue" => last'.res = "ok"]_vars

\* register(B) raised in the list-based backend: descriptor 1 was watched
\* for A.
C9_Witness ==
    /\ backend = "epoll"
    /\ last.op = "register" /\ last.obj = "B" /\ last.res = "IOError"
    /\ interest[1] # None
    /\ status["A"] = "registered"

\* C10 (as stated): in the list-based backend a register(obj, f2) that
\* follows register(obj, f1) with no unregister in between succeeds, and the
\* kernel then watches the descriptor for f2.
C10_ReRegisterChangesFlags ==
    [][\A obj \in Objs :
        /\ backend = "epoll"
        /\ IsRegisterStep(obj)
        /\ status[obj] = "registered"
        /\ fdmap[fileno(obj)] = obj
        /\ interest[fileno(obj)] # None
        => /\ last'.res = "ok"
           /\ interest'[fileno(obj)] = last'.flags]_vars

\* C10 (amended): in the list-based backend the watched flags change only
\* through unregister followed by register: register(obj, f2) on a watched
\* descriptor raises and leaves the kernel watching for the old flags; a
\* successful unregister stops the watch, and a register(obj, f2) that
\* succeeds makes the kernel watch for f2.
C10_FlagsChangeNeedsUnregister ==
    [][\A obj \in Objs :
        LET fd == fileno(obj)
        IN  /\ backend = "epoll" /\ IsRegisterStep(obj) =>
                 IF interest[fd] # None
                 THEN last'.res = "IOError" /\ interest'[fd] = interest[fd]
                 ELSE /\ last'.res = "ok" => interest'[fd] = last'.flags
                      /\ last'.res # "ok" => interest'[fd] = None
            /\ backend = "epoll" /\ IsUnregisterStep(obj)
                 /\ last'.res = "ok" => interest'[fd] = None]_vars

\* register(A, EPOLLOUT) raised; descriptor 1 is still watched for EPOLLIN.
C10_Witness ==
    /\ backend = "epoll"
    /\ last = Call("register", "A", EPOLLOUT, "IOError")
    /\ status["A"] = "registered"
    /\ fdmap[1] = "A"
    /\ interest[1] = EPOLLIN

\* C11: events() never terminates on its own.  The generator never returns:
\* a next() call signals exhaustion only on a stream that an error already
\* ended; resuming the generator after the last item of a cycle's list puts
\* it back into the poll call, and the poll call is left only by yielding
\* the first item of a returned list or by raising (a cycle that reported
\* nothing, or an interruption, leaves the generator in the poll call).
C11_NeverReturns ==
    /\ [](pc # "returned")
    /\ [](last.res = "StopIteration" => pc = "raised")
    /\ [][IsResumeStep /\ pos = Len(reported)
            => pc' = "poll" /\ last' = Call("next", None, None, "blocked")]_vars
    /\ [][pc = "poll" /\ pc' # "poll" => pc' \in {"yielded", "raised"}]_vars

\* A poll cycle completed (the poll call returned after an interruption, and
\* returned nothing) with a descriptor registered; the generator polls again.
C11_Witness ==
    /\ pc = "poll"
    /\ perr = "OK"
    /\ intr >= 1
    /\ fdmap # EmptyMap
    /\ last = Call("next", None, None, "blocked")

\* C12: with no descriptor registered, events() blocks: while the
\* registration map is empty no next() call yields an event and the
\* generator does not return; a generator that is in the poll call stays in
\* it, in both backends, whatever input is pending, unless the poll call
\* itself fails with an error that propagates.
C12_EmptyMapBlocks ==
    /\ [](Yielded => fdmap # EmptyMap)
    /\ [][fdmap = EmptyMap /\ fdmap' = EmptyMap
            => /\ ~(last' # last /\ last'.res = "yield")
               /\ pc' # "returned"]_vars
    /\ [][fdmap = EmptyMap /\ pc = "poll"
            => \/ pc' = "poll" /\ last' = last
               \/ pc' = "raised" /\ last' = Call("next", None, None, "IOError")]_vars

\* The generator is in the poll call with nothing registered (A was, and was
\* unregistered) while every descriptor has input pending.
C12_Witness ==
    /\ pc = "poll"
    /\ fdmap = EmptyMap
    /\ readable = Fds
    /\ status["A"] = "unregistered"
    /\ perr = "OK"

\* The kernel interest set of an EPoll / a KQueue instance that watches the
\* descriptors of W for reading.
EpollWatching(W) == [fd \in Fds |-> IF fd \in W THEN EPOLLIN ELSE None]
KqueueWatching(W) == [fd \in Fds |-> IF fd \in W THEN KQ_FILTER_READ ELSE None]

\* The objects a stream that is in the poll call can yield next, given the
\* lists the poll call can return.
YieldsOf(fm, lists) ==
    {ResolveItem(fm, l[1]).out.obj :
        l \in {x \in lists : x # <<>> /\ fm[x[1].fd] # None}}

\* The registration maps of the two backends stay equal: from the same map,
\* the same register or unregister call leaves the same map in both,
\* whether or not the kernel call succeeds.
BackendsAgreeOnMap ==
    \A obj \in Objs, kfail \in BOOLEAN :
        LET W == Keys(interest)
        IN  /\ EPoll_register(fdmap, EpollWatching(W), obj, EPOLLIN, kfail).fdmap
                 = KQueue_register(fdmap, KqueueWatching(W), obj, kfail).fdmap
            /\ EPoll_unregister(fdmap, EpollWatching(W), obj).fdmap
                 = KQueue_unregister(fdmap, KqueueWatching(W), obj).fdmap

\* The part of C13 about the streams alone: with the same map, the same
\* watched descriptors and the same readiness, both streams can yield the
\* same objects.  It fails whenever a watched descriptor is readable: the
\* EPoll stream yields its object, the KQueue stream nothing.
BackendsYieldAlike ==
    LET W == Keys(interest)
    IN  YieldsOf(fdmap, PollResults("epoll", EpollWatching(W), readable))
         = YieldsOf(fdmap, PollResults("kqueue", KqueueWatching(W), readable))

\* C13 (as stated): the two backends behave alike.  In every state reached
\* with read interest only, an EPoll and a KQueue instance that hold this
\* registration map and watch these descriptors, under this readiness,
\* answer every register and unregister call with the same map and the same
\* outcome (return or raise) and watch the same descriptors afterwards, and
\* their streams can yield the same objects.
C13_BackendsEquivalent ==
    (\A fd \in Fds : interest[fd] \in {None, EPOLLIN, KQ_FILTER_READ}) =>
        LET W  == Keys(interest)
            ek == EpollWatching(W)
            kk == KqueueWatching(W)
        IN  /\ \A obj \in Objs, kfail \in BOOLEAN :
                  LET e == EPoll_register(fdmap, ek, obj, EPOLLIN, kfail)
                      k == KQueue_register(fdmap, kk, obj, kfail)
                  IN  /\ e.fdmap = k.fdmap
                      /\ e.res = k.res
                      /\ Keys(e.interest) = Keys(k.interest)
            /\ \A obj \in Objs :
                  LET e == EPoll_unregister(fdmap, ek, obj)
                      k == KQueue_unregister(fdmap, kk, obj)
                  IN  /\ e.fdmap = k.fdmap
                      /\ e.res = k.res
                      /\ Keys(e.interest) = Keys(k.interest)
            /\ YieldsOf(fdmap, PollResults("epoll", ek, readable))
                 = YieldsOf(fdmap, PollResults("kqueue", kk, readable))

\* C14: only register and unregister change the registration map and the
\* kernel interest set.  A step whose latest consumer call is events() or
\* next() (creating the stream, entering the poll call, the poll call
\* returning, being interrupted and retried, yielding, raising) leaves both
\* as they were; and whenever either changes, the step is a register or an
\* unregister call.
C14_OnlyRegistrationMutates ==
    /\ [][last'.op \in {"events", "next"} => UNCHANGED <<fdmap, interest>>]_vars
    /\ [][fdmap' # fdmap \/ interest' # interest
            => last' # last /\ last'.op \in {"register", "unregister"}]_vars

\* A stream was interrupted, retried and then ended by a poll error, with
\* both descriptors still registered and watched.
C14_Witness ==
    /\ pc = "raised"
    /\ perr = "EBADF"
    /\ intr >= 1
    /\ Keys(fdmap) = Fds
    /\ Keys(interest) = Fds

\* The safety half of C15: a stream that an error ended stays ended (every
\* further next() on it signals exhaustion and the generator does not move),
\* the failing step leaves the registration map and the interest set as they
\* were, and the only way on is a new events() call, which gives a stream
\* that has not polled yet.
EndedStreamStaysEnded ==
    /\ [][pc = "raised" /\ last'.op = "next" /\ last' # last
            => pc' = "raised" /\ last'.res = "StopIteration"]_vars
    /\ [][pc # "raised" /\ pc' = "raised" => UNCHANGED <<fdmap, interest>>]_vars
    /\ [][pc = "raised" /\ pc' # "raised"
            => /\ pc' = "fresh"
               /\ last' = Call("events", None, None, "ok")
               /\ reported' = <<>> /\ pos' = 0 /\ perr' = "OK"
               /\ UNCHANGED <<fdmap, interest>>]_vars

\* The liveness half of C15: after a stream has ended with an error, if
\* from some point on A is registered for reading, its descriptor stays
\* readable and the consumer keeps pulling from a stream that no error ends
\* (so a new events() call was made), A is yielded.
FreshStreamDelivers ==
    [](pc = "raised" => (<>[]C7_Pre => <>C7_GotA))

\* The same for the list-based backend alone.
FreshStreamDeliversEPoll ==
    [](pc = "raised" /\ backend = "epoll" => (<>[]C7_Pre => <>C7_GotA))

\* C15 (as stated): a stream is restartable only as a fresh call.  Once an
\* error has ended a stream, that stream yields nothing more; the failure
\* leaves the registration map intact; and a new events() call on the same
\* poller polls again and yields the events of the descriptors still
\* registered, in both backends.
C15_RestartableAsFreshCall ==
    EndedStreamStaysEnded /\ FreshStreamDelivers

\* C16: the cleanup call at the end of KQueue.events is unreachable: in no
\* reachable state has events() closed the kernel handle, whether the stream
\* is being consumed, was replaced by a new one or was ended by an error.
C16_CloseUnreachable ==
    backend = "kqueue" => (closed = FALSE /\ pc # "returned")

\* A queue-based stream was ended by a poll error and pulled from once more;
\* the handle is still open.
C16_Witness ==
    /\ backend = "kqueue"
    /\ pc = "raised"
    /\ perr = "EBADF"
    /\ last = Call("next", None, None, "StopIteration")
    /\ closed = FALSE

\* C17 (as stated): after any sequence of register and unregister calls,
\* raising ones included, the descriptors that are keys of the registration
\* map are exactly the descriptors the kernel multiplexer watches.
C17_MapMatchesKernel == Keys(fdmap) = Keys(interest)

\* C18 (as stated): a register call that raises leaves the poller as it
\* was: the registration map (the descriptor still maps to the object it
\* held before, or to none) and the kernel interest set are unchanged.
C18_FailedRegisterChangesNothing ==
    [][\A obj \in Objs :
        IsRegisterStep(obj) /\ last'.res = "IOError"
        => UNCHANGED <<fdmap, interest>>]_vars

\* The part of C18 that holds: a register call that raises leaves the
\* kernel interest set as it was.
FailedRegisterKeepsInterest ==
    [][\A obj \in Objs :
        IsRegisterStep(obj) /\ last'.res = "IOError"
        => UNCHANGED interest /\ fdmap'[fileno(obj)] = obj]_vars

\* C19: an unregister call fails with the lookup error exactly when the
\* descriptor is no key of the registration map, and then it changes
\* nothing: the map and the kernel interest set are as before and no delete
\* call reaches the kernel, because the map entry is deleted first.  When
\* the descriptor is a key, the entry is removed and the kernel delete call
\* is issued.
C19_LookupFailureChangesNothing ==
    [][\A obj \in Objs :
        LET fd == fileno(obj)
        IN  IsUnregisterStep(obj) =>
              /\ last'.res = "KeyError" <=> fdmap[fd] = None
              /\ fdmap[fd] = None =>
                    UNCHANGED <<fdmap, interest>> /\ kcall' = "none"
              /\ fdmap[fd] # None =>
                    fdmap'[fd] = None /\ kcall' = "delete"]_vars

\* A second unregister(A) failed with the lookup error and issued no kernel
\* call; C is still registered and watched.
C19_Witness ==
    /\ last = Call("unregister", "A", None, "KeyError")
    /\ kcall = "none"
    /\ status["A"] = "unregistered"
    /\ fdmap[1] = None
    /\ fdmap[2] = "C"
    /\ interest[2] # None

\* register(obj, flags) immediately followed by unregister(obj), from the
\* current state of the poller: the outcome of each call and the map and
\* interest set afterwards.
RoundTrip(obj, flags, kfail) ==
    LET r == DoRegister(backend, fdmap, interest, obj, flags, kfail)
        u == DoUnregister(backend, r.fdmap, r.interest, obj)
    IN  [reg |-> r.res, unreg |-> u.res, fdmap |-> u.fdmap, interest |-> u.interest]

\* C20 (as stated): for an object whose descriptor is no key of the map,
\* register(obj) immediately followed by unregister(obj) succeeds, both
\* calls, and restores the map and the kernel interest set, in both
\* backends, whatever the kernel answers to the add.
C20_RoundTripSucceeds ==
    \A obj \in Objs, kfail \in BOOLEAN :
        \A flags \in RegFlags(backend) :
            fdmap[fileno(obj)] = None =>
                LET t == RoundTrip(obj, flags, kfail)
                IN  /\ t.reg = "ok" /\ t.unreg = "ok"
                    /\ t.fdmap = fdmap /\ t.interest = interest

\* C20 (amended): for an object whose descriptor is no key of the map,
\* register(obj) immediately followed by unregister(obj) restores the map
\* and the kernel interest set in both backends; both calls return normally
\* when the kernel accepts the add, and both raise when it refuses it (the
\* register from the add, the unregister from the delete of a descriptor
\* that is not watched).  As steps: an unregister(obj) that directly follows
\* a register(obj) that returned normally returns normally and removes
\* exactly that descriptor from the map and from the interest set.
C20_RoundTripRestores ==
    /\ [](\A obj \in Objs, kfail \in BOOLEAN :
            \A flags \in RegFlags(backend) :
                fdmap[fileno(obj)] = None =>
                    LET t == RoundTrip(obj, flags, kfail)
                    IN  /\ t.fdmap = fdmap /\ t.interest = interest
                        /\ ~kfail => t.reg = "ok" /\ t.unreg = "ok"
                        /\ kfail => t.reg = "IOError" /\ t.unreg = "IOError")
    /\ [][\A obj \in Objs :
            /\ IsUnregisterStep(obj)
            /\ last.op = "register" /\ last.obj = obj /\ last.res = "ok"
            => /\ last'.res = "ok"
               /\ fdmap' = [fdmap EXCEPT ![fileno(obj)] = None]
               /\ interest' = [interest EXCEPT ![fileno(obj)] = None]]_vars

\* register(A) then unregister(A) were called on a poller that has C
\* registered: A's descriptor is again neither a key nor watched, C's is
\* both.
C20_Witness ==
    /\ last = Call("unregister", "A", None, "ok")
    /\ kcall = "delete"
    /\ lastReg[1] = "A"
    /\ status["A"] = "unregistered"
    /\ fdmap[1] = None /\ interest[1] = None
    /\ fdmap[2] = "C" /\ interest[2] # None

====
